---- MODULE Spec2Model ----
(***************************************************************************)
(* Model of pkg/server/filters/wrap.go: the panic-recovery filter of the   *)
(* apiserver.  WithPanicRecovery wraps an http.Handler so that a panic of  *)
(* the inner handler is recovered by a deferred runtime.HandleCrash, which *)
(* calls the crash handler closure with the writer, the request and the    *)
(* recovered value.  Each request is served on its own goroutine; the      *)
(* model follows every goroutine step by step.                             *)
(***************************************************************************)
EXTENDS Integers, Sequences, FiniteSets, TLC

\* ---------------------------------------------------------------- bounds
\* Number of goroutines serving requests at the same time.
NumReqs == 2
\* Total number of requests dispatched to the wrapped handler.
MaxRequests == 2
\* Number of body chunks the inner handler writes at most per request.
MaxInnerWrites == 1
\* How far around 0 and around the buffer size stack text lengths are drawn.
MaxStackProbe == 20

Reqs == 1..NumReqs

\* ------------------------------------------------------- program constants
StatusOK == 200
StatusNotFound == 404
StatusInternalServerError == 500

\* stack := make([]byte, 50*1024)
StackBufSize == 50 * 1024

\* The sentinel panic value of net/http.
ErrAbortHandler == "http.ErrAbortHandler"
\* A panic that carries no value.
NilValue == "nil"
\* The values an inner handler panics with.
FailureValues == {ErrAbortHandler, NilValue, "boom"}
\* What recover() yields when the goroutine is not panicking.
NoPanic == "not panicking"

\* The fixed text handed to http.Error.
PanicMsg == "This request caused apiserver to panic. Look in the logs for details."

\* The request served by goroutine r.  The crash handler branches on
\* nothing but the failure value, so each goroutine has one request.
RequestOf(r) ==
    [Method |-> IF r = 1 THEN "GET" ELSE "POST", RequestURI |-> <<"/apis", r>>]

\* The Audit-ID response header set before the filter is entered: absent
\* for the request of goroutine 1, present for the others.
AuditIDOf(r) == IF r = 1 THEN "" ELSE "audit-id"

\* The length of the text runtime.Stack has to report on goroutine r: short
\* on goroutine 1, longer than the buffer on the others.
StackTextLenOf(r) == IF r = 1 THEN 2048 ELSE StackBufSize + r

Min(a, b) == IF a < b THEN a ELSE b

\* Lengths of the text of a goroutine's stack: short ones, and the ones
\* around the size of the buffer of currentStack.
StackTextLens ==
    (0..MaxStackProbe) \cup
    ((StackBufSize - MaxStackProbe)..(StackBufSize + MaxStackProbe))

\* No string captured yet.
NoStack == [head |-> "", len |-> 0]

\* ------------------------------------------------------------- variables
VARIABLES
    reallyCrash,  \* runtime.ReallyCrash, the process-wide re-raise policy
    chain,        \* the handler built by WithPanicRecovery, outermost layer first
    nStarted,     \* requests dispatched so far
    pc,           \* position of each goroutine
    entered,      \* layers of the chain the request has entered, in order
    deferred,     \* deferred calls of the ServeHTTP frame of each goroutine
    w,            \* the http.ResponseWriter of each request
    recovered,    \* the value the inner handler panicked with, or NoPanic
    panicking,    \* whether the goroutine is unwinding with a panic
    wAtPanic,     \* the writer as it was when the inner handler stopped
    args,         \* (w, req, err) each crash handler invocation received
    auditID,      \* local auditID of the crash handler
    effects,      \* calls made by the crash handler, in order
    outcome,      \* how ServeHTTP of the wrapped handler ended
    prior,        \* how the earlier requests served on each goroutine ended
    stackText,    \* length of the stack text of a goroutine calling currentStack
    stack         \* the string currentStack returned to it

vars == <<reallyCrash, chain, nStarted, pc, entered, deferred, w, recovered,
          panicking, wAtPanic, args, auditID, effects, outcome, prior,
          stackText, stack>>

\* ------------------------------------------------------- response writer
FreshWriter(audit) ==
    [wroteHeader |-> FALSE,
     status      |-> 0,
     header      |-> [AuditID |-> audit, ContentType |-> "", XContentTypeOptions |-> ""],
     body        |-> <<>>]

\* ResponseWriter.WriteHeader: only the first call sends the status line.
WriteHeader(wr, code) ==
    IF wr.wroteHeader THEN wr
    ELSE [wr EXCEPT !.wroteHeader = TRUE, !.status = code]

\* ResponseWriter.Write: sends the header with 200 if it was not sent yet.
Write(wr, chunk) ==
    [WriteHeader(wr, StatusOK) EXCEPT !.body = Append(@, chunk)]

\* Mutation: the body is written before the status.
httpErrorBodyFirst(wr, msg, code) ==
    WriteHeader(Write([wr EXCEPT !.header.ContentType = "text/plain; charset=utf-8",
                                 !.header.XContentTypeOptions = "nosniff"],
                      msg \o <<"\n">>), code)

\* http.Error: set the headers, WriteHeader(code), Fprintln(w, msg).
httpError(wr, msg, code) ==
    Write(WriteHeader([wr EXCEPT !.header.ContentType = "text/plain; charset=utf-8",
                                 !.header.XContentTypeOptions = "nosniff"],
                      code),
          msg \o <<"\n">>)

\* ----------------------------------------------------------- stack capture
\* runtime.Stack(buf, false) fills buf with at most len(buf) bytes of text.
runtimeStack(bufLen, textLen) == Min(bufLen, textLen)

\* Mutation: the buffer grows with the stack text.
currentStackNoLimit(textLen) == 1 + runtimeStack(textLen, textLen)

\* currentStack: the length of "\n" + string(stack[:n]).
currentStack(textLen) == 1 + runtimeStack(StackBufSize, textLen)

\* currentStack: the first character of "\n" + string(stack[:n]).
currentStackHead == "\n"

\* --------------------------------------------------------------- the chain
\* The inner handler given to WithPanicRecovery.
handler == <<"handler">>

\* httplog.WithLogging(handler, pred): the logging wrapper around handler.
WithLogging(h) == <<"WithLogging">> \o h

\* Mutation: the logging wrapper is put around the recovery guard.
withPanicRecoveryLoggingOutside(h) == WithLogging(<<"RecoveryGuard">> \o h)

\* withPanicRecovery: the guard (deferred HandleCrash) around WithLogging(handler).
withPanicRecovery(h) == <<"RecoveryGuard">> \o WithLogging(h)

\* Mutation: the crash handler is registered twice.
GuardDeferredTwice == <<"HandleCrash", "HandleCrash">>

\* Mutation: the crash handler itself is deferred, without HandleCrash.
GuardDeferredDirect == <<"crashHandler">>

\* defer runtime.HandleCrash(func(err interface{}) { crashHandler(w, req, err) })
GuardDeferred == <<"HandleCrash">>

\* Mutation: the closure hands over the writer of another goroutine.
GuardArgsShared(r) == [w |-> 1, req |-> r, err |-> recovered[r]]

\* crashHandler(w, req, err): the closure captures w and req of its own call.
GuardArgs(r) == [w |-> r, req |-> r, err |-> recovered[r]]

\* ------------------------------------------------------- the crash handler
\* Mutation: the sentinel is never recognised.
IsAbortNever(err) == FALSE

\* Mutation: every value is taken for the sentinel.
IsAbortAlways(err) == TRUE

\* if err == http.ErrAbortHandler
IsAbort(err) == err = ErrAbortHandler

\* The nil error of a call that succeeded.
NoError == "<nil>"

\* An absent *request.RequestInfo.
NilInfo == <<>>

\* Mutation: the test of the resolver's error is inverted.
AbortMetricInfoInverted(res) == IF res.err = NoError THEN NilInfo ELSE res.info

\* if info, err := resolver.NewRequestInfo(req); err != nil { nil } else { info }
AbortMetricInfo(res) == IF res.err # NoError THEN NilInfo ELSE res.info

\* resolver.NewRequestInfo(req): the outcomes for the request of goroutine q.
NewRequestInfo(q) ==
    {[info |-> <<"RequestInfo", q>>, err |-> NoError],
     [info |-> NilInfo, err |-> "resolve error"]}

\* Mutation: the return of the abort branch is missing.
AbortReturnMissing == FALSE

\* Whether the abort branch ends with return.
AbortReturn == TRUE

\* Mutation: the failure value is echoed to the client.
GenericBodyEcho(err) == <<PanicMsg, err>>

\* The message argument of http.Error.
GenericBody(err) == <<PanicMsg>>

\* One call made by the crash handler: the operation and what it is given.
Effect(op, q, aid, err) ==
    [op |-> op, method |-> RequestOf(q).Method, uri |-> RequestOf(q).RequestURI,
     auditID |-> aid, err |-> err, stack |-> 0, info |-> NilInfo, code |-> 0,
     msg |-> <<>>]

\* -------------------------------------------------------------------- Init
\* The wrapped handler is built and no request has been dispatched.
InitRequests ==
    /\ reallyCrash \in BOOLEAN
    /\ chain = withPanicRecovery(handler)
    /\ nStarted = 0
    /\ pc = [r \in Reqs |-> "Idle"]
    /\ entered = [r \in Reqs |-> <<>>]
    /\ deferred = [r \in Reqs |-> <<>>]
    /\ w = [r \in Reqs |-> FreshWriter("")]
    /\ recovered = [r \in Reqs |-> NoPanic]
    /\ panicking = [r \in Reqs |-> FALSE]
    /\ wAtPanic = [r \in Reqs |-> FreshWriter("")]
    /\ args = [r \in Reqs |-> <<>>]
    /\ auditID = [r \in Reqs |-> ""]
    /\ effects = [r \in Reqs |-> <<>>]
    /\ outcome = [r \in Reqs |-> "none"]
    /\ prior = [r \in Reqs |-> <<>>]

Init ==
    /\ InitRequests
    /\ stackText = 0
    /\ stack = NoStack

\* ----------------------------------------------------------------- actions
\* How the request on goroutine r went: without a panic, with a panic with
\* the sentinel, or with a panic with another value.
Kind(r) ==
    IF recovered[r] = NoPanic THEN "normal"
    ELSE IF recovered[r] = ErrAbortHandler THEN "abort" ELSE "generic"

\* The server dispatches a request to the wrapped handler on goroutine r.
Serve(r) ==
    /\ pc[r] \in {"Idle", "Done"}
    /\ nStarted < MaxRequests
    /\ nStarted' = nStarted + 1
    /\ w' = [w EXCEPT ![r] = FreshWriter(AuditIDOf(r))]
    /\ wAtPanic' = [wAtPanic EXCEPT ![r] = FreshWriter(AuditIDOf(r))]
    /\ pc' = [pc EXCEPT ![r] = "Dispatch"]
    /\ entered' = [entered EXCEPT ![r] = <<>>]
    /\ deferred' = [deferred EXCEPT ![r] = <<>>]
    /\ recovered' = [recovered EXCEPT ![r] = NoPanic]
    /\ panicking' = [panicking EXCEPT ![r] = FALSE]
    /\ args' = [args EXCEPT ![r] = <<>>]
    /\ auditID' = [auditID EXCEPT ![r] = ""]
    /\ effects' = [effects EXCEPT ![r] = <<>>]
    /\ outcome' = [outcome EXCEPT ![r] = "none"]
    /\ prior' = [prior EXCEPT ![r] =
                   IF pc[r] = "Done" THEN Append(@, Kind(r)) ELSE @]
    /\ UNCHANGED <<stackText, stack, reallyCrash, chain>>

\* The layer the request enters next.
NextLayer(r) == chain[Len(entered[r]) + 1]

\* Mutation: the deferred call is set up for the first request only.
EnterGuardOnce(r) ==
    /\ pc[r] = "Dispatch"
    /\ NextLayer(r) = "RecoveryGuard"
    /\ deferred' = [deferred EXCEPT ![r] =
                      IF nStarted = 1 THEN GuardDeferred \o @ ELSE @]
    /\ entered' = [entered EXCEPT ![r] = Append(@, "RecoveryGuard")]
    /\ UNCHANGED <<prior, stackText, stack, reallyCrash, chain, nStarted, pc,
                   w, recovered, panicking, wAtPanic, args, auditID, effects,
                   outcome>>

\* The HandlerFunc of withPanicRecovery starts: the defer statement.
EnterGuard(r) ==
    /\ pc[r] = "Dispatch"
    /\ NextLayer(r) = "RecoveryGuard"
    /\ deferred' = [deferred EXCEPT ![r] = GuardDeferred \o @]
    /\ entered' = [entered EXCEPT ![r] = Append(@, "RecoveryGuard")]
    /\ UNCHANGED <<prior, stackText, stack, reallyCrash, chain, nStarted, pc, w, recovered, panicking,
                   wAtPanic, args, auditID, effects, outcome>>

\* handler.ServeHTTP(w, req) reaches the logging wrapper.
EnterLogging(r) ==
    /\ pc[r] = "Dispatch"
    /\ NextLayer(r) = "WithLogging"
    /\ entered' = [entered EXCEPT ![r] = Append(@, "WithLogging")]
    /\ UNCHANGED <<prior, stackText, stack, reallyCrash, chain, nStarted, pc, deferred, w, recovered,
                   panicking, wAtPanic, args, auditID, effects, outcome>>

\* The inner handler starts to run.
EnterHandler(r) ==
    /\ pc[r] = "Dispatch"
    /\ NextLayer(r) = "handler"
    /\ entered' = [entered EXCEPT ![r] = Append(@, "handler")]
    /\ pc' = [pc EXCEPT ![r] = "Running"]
    /\ UNCHANGED <<prior, stackText, stack, reallyCrash, chain, nStarted, deferred, w, recovered,
                   panicking, wAtPanic, args, auditID, effects, outcome>>

\* The inner handler writes an error response itself, as the response:
\* http.Error(w, "not found", 404).
InnerError(r) ==
    /\ pc[r] = "Running"
    /\ ~w[r].wroteHeader
    /\ Len(w[r].body) < MaxInnerWrites
    /\ w' = [w EXCEPT ![r] = httpError(@, <<"not found">>, StatusNotFound)]
    /\ UNCHANGED <<prior, stackText, stack, reallyCrash, chain, nStarted, pc, entered, deferred,
                   recovered, panicking, wAtPanic, args, auditID, effects,
                   outcome>>

\* The inner handler calls w.Write(chunk); a handler that has answered with
\* an error writes nothing after it.
InnerWrite(r) ==
    /\ pc[r] = "Running"
    /\ w[r].status # StatusNotFound
    /\ Len(w[r].body) < MaxInnerWrites
    /\ w' = [w EXCEPT ![r] = Write(@, <<"partial">>)]
    /\ UNCHANGED <<prior, stackText, stack, reallyCrash, chain, nStarted, pc, entered, deferred,
                   recovered, panicking, wAtPanic, args, auditID, effects,
                   outcome>>

\* The inner handler returns: the frame of the wrapped handler unwinds.
InnerReturn(r) ==
    /\ pc[r] = "Running"
    /\ pc' = [pc EXCEPT ![r] = "Deferred"]
    /\ wAtPanic' = [wAtPanic EXCEPT ![r] = w[r]]
    /\ UNCHANGED <<prior, stackText, stack, reallyCrash, chain, nStarted, entered, deferred, w,
                   recovered, panicking, args, auditID, effects, outcome>>

\* The inner handler panics with v: the frame of the wrapped handler unwinds.
InnerPanic(r) ==
    /\ pc[r] = "Running"
    /\ \E v \in FailureValues : recovered' = [recovered EXCEPT ![r] = v]
    /\ panicking' = [panicking EXCEPT ![r] = TRUE]
    /\ pc' = [pc EXCEPT ![r] = "Deferred"]
    /\ wAtPanic' = [wAtPanic EXCEPT ![r] = w[r]]
    /\ UNCHANGED <<prior, stackText, stack, reallyCrash, chain, nStarted, entered, deferred, w,
                   args, auditID, effects, outcome>>

\* recover(), called by a deferred function of goroutine r.
recover(r) == IF panicking[r] THEN recovered[r] ELSE NoPanic

\* A deferred call of goroutine r has ended, the goroutine panicking or not:
\* the next deferred call runs, or ServeHTTP of the wrapped handler ends.
Unwind(r, p) ==
    /\ deferred' = [deferred EXCEPT ![r] = Tail(@)]
    /\ panicking' = [panicking EXCEPT ![r] = p]
    /\ IF Tail(deferred[r]) = <<>>
          THEN /\ pc' = [pc EXCEPT ![r] = "Done"]
               /\ outcome' = [outcome EXCEPT ![r] =
                                IF p THEN "panicked" ELSE "returned"]
          ELSE /\ pc' = [pc EXCEPT ![r] = "Deferred"]
               /\ UNCHANGED outcome

\* The crash handler returns to the deferred call that called it:
\* HandleCrash panics again with the value if ReallyCrash is set.
HandleCrashExit(r) ==
    IF Head(deferred[r]) = "HandleCrash"
       THEN Unwind(r, reallyCrash)
       ELSE Unwind(r, panicking[r])

\* runtime.HandleCrash runs as a deferred call: if r := recover(); r != nil,
\* the handlers are called with r.
HandleCrash(r) ==
    /\ pc[r] = "Deferred"
    /\ deferred[r] # <<>>
    /\ \/ /\ Head(deferred[r]) = "HandleCrash"
          /\ recover(r) = NoPanic
          /\ Unwind(r, FALSE)
          /\ UNCHANGED args
       \/ /\ Head(deferred[r]) = "HandleCrash"
          /\ recover(r) # NoPanic
          /\ args' = [args EXCEPT ![r] = Append(@, GuardArgs(r))]
          /\ panicking' = [panicking EXCEPT ![r] = FALSE]
          /\ pc' = [pc EXCEPT ![r] = "Classifying"]
          /\ UNCHANGED <<deferred, outcome>>
       \/ /\ Head(deferred[r]) = "crashHandler"
          /\ args' = [args EXCEPT ![r] = Append(@, GuardArgs(r))]
          /\ pc' = [pc EXCEPT ![r] = "Classifying"]
          /\ UNCHANGED <<deferred, panicking, outcome>>
    /\ UNCHANGED <<prior, stackText, stack, reallyCrash, chain, nStarted, entered, w, recovered,
                   wAtPanic, auditID, effects>>

\* The arguments of the crash handler invocation running on goroutine r.
Cur(r) == args[r][Len(args[r])]

\* Mutation: the stack is not logged before the branch.
crashHandlerClassifyNoStackLog(r) ==
    /\ pc[r] = "Classifying"
    /\ auditID' = [auditID EXCEPT ![r] = w[Cur(r).w].header.AuditID]
    /\ pc' = [pc EXCEPT ![r] =
                IF IsAbort(Cur(r).err) THEN "AbortHandling" ELSE "GenericHandling"]
    /\ UNCHANGED <<prior, stackText, stack, reallyCrash, chain, nStarted,
                   entered, deferred, w, recovered, panicking, wAtPanic, args,
                   effects, outcome>>

\* auditID := w.Header().Get(HeaderAuditID); klog.Errorf(... currentStack());
\* if err == http.ErrAbortHandler
crashHandlerClassify(r) ==
    /\ pc[r] = "Classifying"
    /\ LET aid == w[Cur(r).w].header.AuditID IN
         /\ auditID' = [auditID EXCEPT ![r] = aid]
         /\ effects' = [effects EXCEPT ![r] =
               Append(@, [Effect("klog.stack", Cur(r).req, aid, Cur(r).err)
                            EXCEPT !.stack = currentStack(StackTextLenOf(r))])]
    /\ pc' = [pc EXCEPT ![r] =
                IF IsAbort(Cur(r).err) THEN "AbortHandling" ELSE "GenericHandling"]
    /\ UNCHANGED <<prior, stackText, stack, reallyCrash, chain, nStarted, entered, deferred, w,
                   recovered, panicking, wAtPanic, args, outcome>>

\* Mutation: the abort record is logged after the metric.
abortMetricLogLast(r) ==
    /\ pc[r] = "AbortHandling"
    /\ \E res \in NewRequestInfo(Cur(r).req) :
         effects' = [effects EXCEPT ![r] = @ \o
            <<[Effect("resolver.NewRequestInfo", Cur(r).req, auditID[r], res.err)
                  EXCEPT !.info = res.info],
              [Effect("metrics.RecordRequestAbort", Cur(r).req, auditID[r], "-")
                  EXCEPT !.info = AbortMetricInfo(res)],
              Effect("klog.abort", Cur(r).req, auditID[r], Cur(r).err)>>]
    /\ pc' = [pc EXCEPT ![r] = "AbortReport"]
    /\ UNCHANGED <<prior, stackText, stack, reallyCrash, chain, nStarted,
                   entered, deferred, w, recovered, panicking, wAtPanic, args,
                   auditID, outcome>>

\* Mutation: the else is missing, a resolver error records the metric twice.
abortMetricNoElse(r) ==
    /\ pc[r] = "AbortHandling"
    /\ \E res \in NewRequestInfo(Cur(r).req) :
         effects' = [effects EXCEPT ![r] = @ \o
            <<Effect("klog.abort", Cur(r).req, auditID[r], Cur(r).err),
              [Effect("resolver.NewRequestInfo", Cur(r).req, auditID[r], res.err)
                  EXCEPT !.info = res.info]>> \o
            (IF res.err # NoError
                THEN <<Effect("metrics.RecordRequestAbort", Cur(r).req, auditID[r], "-")>>
                ELSE <<>>) \o
            <<[Effect("metrics.RecordRequestAbort", Cur(r).req, auditID[r], "-")
                  EXCEPT !.info = res.info]>>]
    /\ pc' = [pc EXCEPT ![r] = "AbortReport"]
    /\ UNCHANGED <<prior, stackText, stack, reallyCrash, chain, nStarted,
                   entered, deferred, w, recovered, panicking, wAtPanic, args,
                   auditID, outcome>>

\* klog.Errorf("Encountered an http.ErrAbortHandler error ..."), then
\* resolver.NewRequestInfo(req) and metrics.RecordRequestAbort(req, info or nil)
abortMetric(r) ==
    /\ pc[r] = "AbortHandling"
    /\ \E res \in NewRequestInfo(Cur(r).req) :
         effects' = [effects EXCEPT ![r] = @ \o
            <<Effect("klog.abort", Cur(r).req, auditID[r], Cur(r).err),
              [Effect("resolver.NewRequestInfo", Cur(r).req, auditID[r], res.err)
                  EXCEPT !.info = res.info],
              [Effect("metrics.RecordRequestAbort", Cur(r).req, auditID[r], "-")
                  EXCEPT !.info = AbortMetricInfo(res)]>>]
    /\ pc' = [pc EXCEPT ![r] = "AbortReport"]
    /\ UNCHANGED <<prior, stackText, stack, reallyCrash, chain, nStarted, entered, deferred, w,
                   recovered, panicking, wAtPanic, args, auditID, outcome>>

\* Mutation: the report waits for the rate limiter and never comes back.
abortReportBlocks(r) ==
    /\ pc[r] = "AbortReport"
    /\ FALSE
    /\ UNCHANGED vars

\* runtime.HandleError(fmt.Errorf("timeout or abort while handling ...")); return
abortReport(r) ==
    /\ pc[r] = "AbortReport"
    /\ effects' = [effects EXCEPT ![r] =
          Append(@, [Effect("runtime.HandleError", Cur(r).req, auditID[r], "-")
                       EXCEPT !.msg = <<"timeout or abort while handling">>])]
    /\ IF AbortReturn
          THEN HandleCrashExit(r)
          ELSE /\ pc' = [pc EXCEPT ![r] = "GenericHandling"]
               /\ UNCHANGED <<deferred, panicking, outcome>>
    /\ UNCHANGED <<prior, stackText, stack, reallyCrash, chain, nStarted, entered, w, recovered,
                   wAtPanic, args, auditID>>

\* Mutation: the summary is logged before the response is written, too.
genericErrorLogFirst(r) ==
    /\ pc[r] = "GenericHandling"
    /\ w' = [w EXCEPT ![Cur(r).w] =
               httpError(@, GenericBody(Cur(r).err), StatusInternalServerError)]
    /\ effects' = [effects EXCEPT ![r] = @ \o
          <<Effect("klog.summary", Cur(r).req, auditID[r], "-"),
            [Effect("http.Error", Cur(r).req, auditID[r], "-")
                EXCEPT !.msg = GenericBody(Cur(r).err),
                       !.code = StatusInternalServerError]>>]
    /\ pc' = [pc EXCEPT ![r] = "GenericLog"]
    /\ UNCHANGED <<prior, stackText, stack, reallyCrash, chain, nStarted,
                   entered, deferred, recovered, panicking, wAtPanic, args,
                   auditID, outcome>>

\* http.Error(w, "This request caused apiserver to panic. ...", 500)
genericError(r) ==
    /\ pc[r] = "GenericHandling"
    /\ w' = [w EXCEPT ![Cur(r).w] =
               httpError(@, GenericBody(Cur(r).err), StatusInternalServerError)]
    /\ effects' = [effects EXCEPT ![r] =
          Append(@, [Effect("http.Error", Cur(r).req, auditID[r], "-")
                       EXCEPT !.msg = GenericBody(Cur(r).err),
                              !.code = StatusInternalServerError])]
    /\ pc' = [pc EXCEPT ![r] = "GenericLog"]
    /\ UNCHANGED <<prior, stackText, stack, reallyCrash, chain, nStarted, entered, deferred,
                   recovered, panicking, wAtPanic, args, auditID, outcome>>

\* klog.Errorf("apiserver panic'd on method: ..."), and the crash handler ends
genericLog(r) ==
    /\ pc[r] = "GenericLog"
    /\ effects' = [effects EXCEPT ![r] =
          Append(@, Effect("klog.summary", Cur(r).req, auditID[r], "-"))]
    /\ HandleCrashExit(r)
    /\ UNCHANGED <<prior, stackText, stack, reallyCrash, chain, nStarted, entered, w, recovered,
                   wAtPanic, args, auditID>>

Next ==
    \E r \in Reqs :
        \/ Serve(r)
        \/ EnterGuard(r)
        \/ EnterLogging(r)
        \/ EnterHandler(r)
        \/ InnerError(r)
        \/ InnerWrite(r)
        \/ InnerReturn(r)
        \/ InnerPanic(r)
        \/ HandleCrash(r)
        \/ crashHandlerClassify(r)
        \/ abortMetric(r)
        \/ abortReport(r)
        \/ genericError(r)
        \/ genericLog(r)

Spec == Init /\ [][Next]_vars

\* The steps the wrapped handler takes on goroutine r once the inner
\* handler has stopped: the deferred call and the crash handler.
Guard(r) ==
    \/ HandleCrash(r)
    \/ crashHandlerClassify(r)
    \/ abortMetric(r)
    \/ abortReport(r)
    \/ genericError(r)
    \/ genericLog(r)

\* The goroutine of a request keeps running: the deferred call and the
\* crash handler are synchronous code, and the logger, the resolver, the
\* metrics recorder and the reporter return.
FairSpec == Spec /\ \A r \in Reqs : WF_vars(Guard(r))

\* ------------------------------------------------- one goroutine on its own
\* The requests are all dispatched on one goroutine, any of them, one after
\* the other: no step of the wrapped handler waits for another goroutine.
ServeAlone(r) ==
    /\ \A q \in Reqs \ {r} : pc[q] = "Idle"
    /\ Serve(r)

NextAlone ==
    \E r \in Reqs :
        \/ ServeAlone(r)
        \/ EnterGuard(r)
        \/ EnterLogging(r)
        \/ EnterHandler(r)
        \/ InnerError(r)
        \/ InnerWrite(r)
        \/ InnerReturn(r)
        \/ InnerPanic(r)
        \/ HandleCrash(r)
        \/ crashHandlerClassify(r)
        \/ abortMetric(r)
        \/ abortReport(r)
        \/ genericError(r)
        \/ genericLog(r)

SpecAlone == Init /\ [][NextAlone]_vars

\* The serving goroutine keeps running once the inner handler has stopped.
FairSpecAlone == SpecAlone /\ \A r \in Reqs : WF_vars(Guard(r))

\* ------------------------------------------------- currentStack on its own
\* A goroutine whose stack text has any of the lengths calls currentStack.
InitStack ==
    /\ InitRequests
    /\ stackText \in StackTextLens
    /\ stack = NoStack

\* stack := make([]byte, 50*1024); stack = stack[:runtime.Stack(stack, false)];
\* return "\n" + string(stack)
captureStack ==
    /\ stack = NoStack
    /\ stack' = [head |-> currentStackHead, len |-> currentStack(stackText)]
    /\ UNCHANGED <<reallyCrash, chain, nStarted, pc, entered, deferred, w,
                   recovered, panicking, wAtPanic, args, auditID, effects,
                   outcome, prior, stackText>>

NextStack == captureStack

SpecStack == InitStack /\ [][NextStack]_vars

\* ------------------------------------------------------------ vocabulary
\* The inner handler of the request on goroutine r panicked.
Panicked(r) == recovered[r] # NoPanic

\* It panicked with the sentinel.
Aborted(r) == recovered[r] = ErrAbortHandler

\* It panicked with any other value.
FailedGeneric(r) == Panicked(r) /\ ~Aborted(r)

\* The number of calls of op in a sequence of effects.
Count(seq, op) == Cardinality({i \in 1..Len(seq) : seq[i].op = op})

\* The calls of op in a sequence of effects, in order.
Calls(seq, op) == SelectSeq(seq, LAMBDA e : e.op = op)

\* The position of a layer in a sequence of layers, 0 if it is absent.
Pos(seq, layer) ==
    IF \E i \in 1..Len(seq) : seq[i] = layer
       THEN CHOOSE i \in 1..Len(seq) : seq[i] = layer
       ELSE 0

\* The chunk http.Error sends for the fixed text.
PanicChunk == <<PanicMsg, "\n">>

\* ------------------------------------------------------------------- C1
\* C1 as stated: whatever the inner handler did before it panicked with a
\* value other than ErrAbortHandler, the response ends with status 500 and
\* the fixed text, written once by this layer.
C1_Original ==
    \A r \in Reqs :
        (pc[r] = "Done" /\ FailedGeneric(r)) =>
            /\ w[r].status = StatusInternalServerError
            /\ w[r].body # <<>>
            /\ w[r].body[Len(w[r].body)][1] = PanicMsg
            /\ Count(effects[r], "http.Error") = 1

\* C1 amended: after a panic with a value other than ErrAbortHandler this
\* layer calls http.Error exactly once; the fixed text and a newline are
\* appended to what the inner handler had written, and the status is 500
\* unless the inner handler had already sent the header, whose status stays.
C1_GenericResponse ==
    \A r \in Reqs :
        /\ Count(effects[r], "http.Error") <= 1
        /\ (pc[r] = "Done" /\ FailedGeneric(r)) =>
              /\ Count(effects[r], "http.Error") = 1
              /\ w[r].body = Append(wAtPanic[r].body, PanicChunk)
              /\ w[r].status = IF wAtPanic[r].wroteHeader
                                  THEN wAtPanic[r].status
                                  ELSE StatusInternalServerError

C1_Witness ==
    \E r \in Reqs :
        /\ pc[r] = "Done" /\ FailedGeneric(r)
        /\ ~wAtPanic[r].wroteHeader
        /\ w[r].status = StatusInternalServerError
        /\ w[r].body = <<PanicChunk>>

\* ------------------------------------------------------------------- C2
\* C2: after a panic with ErrAbortHandler the writer stays exactly as the
\* inner handler left it, and this layer never calls http.Error, whatever
\* resolver.NewRequestInfo returned.
C2_AbortNoWrite ==
    \A r \in Reqs :
        (Panicked(r) /\ Aborted(r)) =>
            /\ w[r] = wAtPanic[r]
            /\ Count(effects[r], "http.Error") = 0

C2_Witness ==
    \E r \in Reqs :
        /\ pc[r] = "Done" /\ Aborted(r)
        /\ wAtPanic[r].wroteHeader /\ wAtPanic[r].body # <<>>
        /\ \E i \in 1..Len(effects[r]) :
              effects[r][i].op = "resolver.NewRequestInfo" /\ effects[r][i].err # NoError
        /\ Count(effects[r], "runtime.HandleError") = 1

\* ------------------------------------------------------------------- C3
\* C3: when the inner handler returns without a panic, the crash handler is
\* not called and this layer logs, records, reports and writes nothing.
C3_NoEffects ==
    \A r \in Reqs :
        (pc[r] \in {"Deferred", "Done"} /\ ~Panicked(r)) =>
            /\ args[r] = <<>>
            /\ effects[r] = <<>>
            /\ w[r] = wAtPanic[r]

C3_Witness ==
    \E r \in Reqs :
        /\ pc[r] = "Done" /\ ~Panicked(r)
        /\ w[r].status = StatusNotFound /\ w[r].body # <<>>
        /\ effects[r] = <<>>

\* ------------------------------------------------------------------- C4
\* C4: the crash handler is called at most once per request; when the
\* request is over it was called once if the inner handler panicked and not
\* at all otherwise, and it was given the writer, the request and the
\* failure value of that very request.
C4_ExactlyOnce ==
    \A r \in Reqs :
        /\ Len(args[r]) <= 1
        /\ \A i \in 1..Len(args[r]) :
              args[r][i] = [w |-> r, req |-> r, err |-> recovered[r]]
        /\ pc[r] = "Done" => Len(args[r]) = IF Panicked(r) THEN 1 ELSE 0

C4_Witness ==
    \E r \in Reqs :
        /\ pc[r] = "Done" /\ Panicked(r) /\ reallyCrash
        /\ args[r] = <<[w |-> r, req |-> r, err |-> recovered[r]]>>

\* ------------------------------------------------------------------- C5
\* C5 as stated: after the crash handler has run, the panic never leaves
\* ServeHTTP of the wrapped handler.
C5_Original ==
    \A r \in Reqs :
        (pc[r] = "Done" /\ Panicked(r)) => outcome[r] = "returned"

\* C5 amended: a panic leaves ServeHTTP of the wrapped handler exactly when
\* runtime.ReallyCrash is set, and only after the crash handler has run to
\* its end; with ReallyCrash unset ServeHTTP returns normally.
C5_Contained ==
    \A r \in Reqs :
        /\ (pc[r] = "Done" /\ Panicked(r)) =>
              /\ outcome[r] = IF reallyCrash THEN "panicked" ELSE "returned"
              /\ Len(args[r]) = 1
        /\ (panicking[r] /\ deferred[r] = <<>>) =>
              /\ reallyCrash
              /\ effects[r] # <<>>
              /\ effects[r][Len(effects[r])].op \in {"runtime.HandleError", "klog.summary"}

C5_Witness ==
    \E r \in Reqs :
        /\ pc[r] = "Done" /\ Panicked(r)
        /\ reallyCrash /\ outcome[r] = "panicked"
        /\ Len(args[r]) = 1

\* ------------------------------------------------------------------- C6
\* C6: on the abort path the metric is recorded exactly once, with the
\* resolved info if resolver.NewRequestInfo succeeded and with nil if it
\* failed, and runtime.HandleError is called exactly once in both cases.
C6_AbortMetric ==
    \A r \in Reqs :
        (pc[r] = "Done" /\ Aborted(r)) =>
            LET res == Calls(effects[r], "resolver.NewRequestInfo")
                rec == Calls(effects[r], "metrics.RecordRequestAbort")
            IN  /\ Len(res) = 1
                /\ Len(rec) = 1
                /\ Count(effects[r], "runtime.HandleError") = 1
                /\ res[1].err = NoError => rec[1].info = <<"RequestInfo", r>>
                /\ res[1].err # NoError => rec[1].info = NilInfo

C6_Witness ==
    \E r \in Reqs :
        /\ pc[r] = "Done" /\ Aborted(r)
        /\ Calls(effects[r], "resolver.NewRequestInfo")[1].err = "resolve error"
        /\ Calls(effects[r], "metrics.RecordRequestAbort")[1].info = NilInfo
        /\ Count(effects[r], "runtime.HandleError") = 1

\* ------------------------------------------------------------------- C7
\* What the client gets to see of a writer, its Audit-ID header apart (that
\* header is set per request before the filter is entered).
Sent(wr) ==
    [wroteHeader |-> wr.wroteHeader, status |-> wr.status, body |-> wr.body,
     ContentType |-> wr.header.ContentType,
     XContentTypeOptions |-> wr.header.XContentTypeOptions]

\* C7: what this layer sends to the client does not depend on the failure
\* value: two requests that failed with values other than ErrAbortHandler
\* after the same writes of their inner handlers end with the same
\* response, http.Error is given the fixed text and 500 only, and the
\* failure value and the stack occur in log records only.
C7_NoLeak ==
    /\ \A r, q \in Reqs :
          (/\ FailedGeneric(r) /\ FailedGeneric(q)
           /\ Count(effects[r], "http.Error") = 1
           /\ Count(effects[q], "http.Error") = 1
           /\ Sent(wAtPanic[r]) = Sent(wAtPanic[q])) => Sent(w[r]) = Sent(w[q])
    /\ \A r \in Reqs : \A i \in 1..Len(effects[r]) :
          LET e == effects[r][i] IN
            /\ e.op = "http.Error" =>
                  e.msg = <<PanicMsg>> /\ e.code = StatusInternalServerError
            /\ (e.err = recovered[r] \/ e.stack # 0) =>
                  e.op \in {"klog.stack", "klog.abort"}

C7_Witness ==
    \E r, q \in Reqs :
        /\ FailedGeneric(r) /\ FailedGeneric(q)
        /\ recovered[r] # recovered[q]
        /\ pc[r] = "Done" /\ pc[q] = "Done"
        /\ Sent(wAtPanic[r]) = Sent(wAtPanic[q])
        /\ Sent(w[r]) = Sent(w[q]) /\ w[r].body # <<>>

\* ------------------------------------------------------------------- C8
\* What a step can change of the request on goroutine q.
Touched(q) ==
    \/ w'[q] # w[q]
    \/ effects'[q] # effects[q]
    \/ args'[q] # args[q]
    \/ pc'[q] # pc[q]
    \/ outcome'[q] # outcome[q]

\* C8: under every interleaving of requests a step of one request, a step
\* of its crash handler included, leaves the writer, the effects, the crash
\* handler calls and the outcome of every other request unchanged.
C8_Isolation ==
    [][\A r, q \in Reqs : (r # q /\ Touched(r)) => ~Touched(q)]_vars

C8_Witness ==
    \E r, q \in Reqs :
        /\ r # q
        /\ pc[r] = "GenericLog" /\ w[r].status = StatusInternalServerError
        /\ pc[q] = "Running" /\ w[q].status = StatusOK /\ w[q].body # <<>>

\* ------------------------------------------------------------------- C9
\* C9: the crash handler is on the abort path exactly when the value it was
\* given is ErrAbortHandler; every other value, nil included, is handled on
\* the generic path.
C9_Classification ==
    \A r \in Reqs :
        /\ pc[r] \in {"AbortHandling", "AbortReport"} =>
              args[r][Len(args[r])].err = ErrAbortHandler
        /\ pc[r] \in {"GenericHandling", "GenericLog"} =>
              args[r][Len(args[r])].err # ErrAbortHandler
        /\ (pc[r] = "Done" /\ Panicked(r)) =>
              /\ Count(effects[r], "klog.abort") = IF Aborted(r) THEN 1 ELSE 0
              /\ Count(effects[r], "klog.summary") = IF Aborted(r) THEN 0 ELSE 1

C9_Witness ==
    \E r \in Reqs :
        /\ pc[r] = "GenericLog"
        /\ args[r][Len(args[r])].err = NilValue
        /\ Count(effects[r], "http.Error") = 1

\* ------------------------------------------------------------------ C10
\* C10 as stated: the logging wrapper is applied once and a request passes
\* through it before it enters the recovery guard.
C10_Original ==
    /\ Cardinality({i \in 1..Len(chain) : chain[i] = "WithLogging"}) = 1
    /\ \A r \in Reqs :
          pc[r] = "Running" =>
              Pos(entered[r], "WithLogging") < Pos(entered[r], "RecoveryGuard")

\* C10 amended: the logging wrapper is applied once and sits inside the
\* recovery guard: a request enters the guard, whose deferred HandleCrash is
\* then pending, before it enters the logging wrapper and the inner handler.
C10_LoggingInsideGuard ==
    /\ Cardinality({i \in 1..Len(chain) : chain[i] = "WithLogging"}) = 1
    /\ \A r \in Reqs :
          /\ Pos(entered[r], "WithLogging") # 0 =>
                /\ Pos(entered[r], "RecoveryGuard") # 0
                /\ Pos(entered[r], "RecoveryGuard") < Pos(entered[r], "WithLogging")
          /\ (pc[r] = "Dispatch" /\ NextLayer(r) = "WithLogging") =>
                deferred[r] = <<"HandleCrash">>
          /\ pc[r] = "Running" =>
                entered[r] = <<"RecoveryGuard", "WithLogging", "handler">>

C10_Witness ==
    \E r \in Reqs :
        /\ pc[r] = "Running"
        /\ entered[r] = <<"RecoveryGuard", "WithLogging", "handler">>
        /\ deferred[r] = <<"HandleCrash">>

\* ------------------------------------------------------------------ C11
\* The operations of the calls the crash handler made for goroutine r.
Ops(r) == [i \in 1..Len(effects[r]) |-> effects[r][i].op]

\* s is an initial part of t.
IsPrefix(s, t) == Len(s) <= Len(t) /\ \A i \in 1..Len(s) : s[i] = t[i]

AbortOps ==
    <<"klog.stack", "klog.abort", "resolver.NewRequestInfo",
      "metrics.RecordRequestAbort", "runtime.HandleError">>

GenericOps == <<"klog.stack", "http.Error", "klog.summary">>

\* C13: for a failure value other than ErrAbortHandler the crash handler
\* logs the stack exactly once and the summary exactly once, and the summary
\* comes after the call that writes the 500 response.
C13_GenericLogs ==
    \A r \in Reqs :
        FailedGeneric(r) =>
            /\ IsPrefix(Ops(r), GenericOps)
            /\ pc[r] = "Done" =>
                  /\ Ops(r) = GenericOps
                  /\ effects[r][3] = Effect("klog.summary", r, AuditIDOf(r), "-")
                  /\ w[r].body # <<>>

C13_Witness ==
    \E r \in Reqs :
        /\ pc[r] = "Done" /\ recovered[r] = "boom"
        /\ Ops(r) = GenericOps
        /\ w[r].status = StatusInternalServerError

PhaseOf(p) ==
    CASE p = "Idle" -> "Idle"
      [] p \in {"Dispatch", "Running", "Deferred"} -> "Running"
      [] p = "Classifying" -> "Classifying"
      [] p \in {"AbortHandling", "AbortReport"} -> "AbortHandling"
      [] p \in {"GenericHandling", "GenericLog"} -> "GenericHandling"
      [] p = "Done" -> "Done"

\* A change of state of the request on goroutine r, as the state machine
\* allows it; a new request starts in Running.
PhaseStep(r) ==
    LET from == PhaseOf(pc[r])
        to   == PhaseOf(pc'[r])
    IN  \/ from = to
        \/ from \in {"Idle", "Done"} /\ to = "Running" /\ nStarted' = nStarted + 1
        \/ from = "Running" /\ to = "Done" /\ recovered'[r] = NoPanic
        \/ from = "Running" /\ to = "Classifying" /\ recovered'[r] # NoPanic
        \/ from = "Classifying" /\ to = "AbortHandling"
              /\ recovered'[r] = ErrAbortHandler
        \/ from = "Classifying" /\ to = "GenericHandling"
              /\ recovered'[r] \notin {NoPanic, ErrAbortHandler}
        \/ from \in {"AbortHandling", "GenericHandling"} /\ to = "Done"

\* C15: a request goes Running -> Done, or Running -> Classifying ->
\* AbortHandling or GenericHandling -> Done, and takes no other transition:
\* no state is entered again, AbortHandling and GenericHandling exclude each
\* other, and Done is the one state a request ends in.
C15_StateMachine == [][\A r \in Reqs : PhaseStep(r)]_vars

C15_Witness ==
    \E r, q \in Reqs :
        /\ PhaseOf(pc[r]) = "Done" /\ Aborted(r)
        /\ PhaseOf(pc[q]) = "GenericHandling" /\ FailedGeneric(q)

\* ------------------------------------------------------------------ C16
\* C16: once the inner handler has returned or panicked, the request gets
\* to Done, on the abort path and on the generic path, as long as the
\* goroutine keeps running.
C16_Terminates == \A r \in Reqs : (pc[r] = "Deferred") ~> (pc[r] = "Done")

C16_Witness ==
    \E r \in Reqs :
        /\ prior[r] = <<"generic">>
        /\ pc[r] = "Done" /\ Aborted(r)
        /\ Count(effects[r], "runtime.HandleError") = 1

\* ------------------------------------------------------------------ C17
\* C17: the string currentStack returns starts with a newline, so it is
\* never empty, and holds at most 50*1024 bytes of stack text after it: a
\* longer stack text is cut to the buffer, a shorter one is whole.
C17_StackBounded ==
    stack # NoStack =>
        /\ stack.head = "\n"
        /\ stack.len >= 1
        /\ stack.len <= 50 * 1024 + 1
        /\ stack.len = 1 + (IF stackText > 50 * 1024 THEN 50 * 1024 ELSE stackText)

C17_Witness ==
    /\ stackText > 50 * 1024
    /\ stack.head = "\n"
    /\ stack.len = 50 * 1024 + 1

\* ------------------------------------------------------------------ C18
\* C18: the generic path never resolves request info, never records the
\* abort metric and never reports an error; the abort path never writes the
\* 500 response and never logs the summary.
C18_Exclusive ==
    \A r \in Reqs : \A i \in 1..Len(effects[r]) :
        /\ FailedGeneric(r) =>
              effects[r][i].op \notin
                 {"klog.abort", "resolver.NewRequestInfo",
                  "metrics.RecordRequestAbort", "runtime.HandleError"}
        /\ Aborted(r) =>
              effects[r][i].op \notin {"http.Error", "klog.summary"}

C18_Witness ==
    \E r, q \in Reqs :
        /\ pc[r] = "Done" /\ FailedGeneric(r) /\ Ops(r) = GenericOps
        /\ pc[q] = "Done" /\ Aborted(q) /\ Ops(q) = AbortOps

\* ------------------------------------------------------------------ C19
\* C19: a request that follows earlier requests on its goroutine, however
\* they ended, runs with the deferred HandleCrash of its own call pending,
\* and when it is over the crash handler was called once if its inner
\* handler panicked and not at all if it returned.
C19_ArmedAfresh ==
    \A r \in Reqs :
        prior[r] # <<>> =>
            /\ pc[r] \in {"Running", "Deferred", "Classifying"} =>
                  deferred[r] = <<"HandleCrash">>
            /\ pc[r] = "Done" => Len(args[r]) = IF Panicked(r) THEN 1 ELSE 0

C19_Witness ==
    \E r \in Reqs :
        /\ prior[r] # <<>> /\ prior[r][1] \in {"abort", "generic"}
        /\ pc[r] = "Done" /\ Panicked(r)
        /\ Len(args[r]) = 1

====
